---------------------------- MODULE Spec2Model ----------------------------
(***************************************************************************)
(* Model of the sensitive-data fields configuration loader:                *)
(*   - parseYamlConfig: the pure parser/localizer of a fields document,     *)
(*   - useFieldsConfig: the React hook that fetches the document once and   *)
(*     re-parses it whenever the active language changes.                   *)
(***************************************************************************)
EXTENDS Integers, Sequences, FiniteSets, TLC

VARIABLES
  language,     \* i18n.language ("" stands for an unset language)
  fields,       \* useState: fields, as last set
  loading,      \* useState: loading, as last set
  error,        \* useState: error, as last set
  fetchedYaml,  \* useState: fetchedYaml ({yaml, lang} or null), as last set
  render,       \* what the last render saw, and whether another one is due
  pending,      \* effects scheduled by the last render, in declaration order
  inflight,     \* outstanding fetchConfig calls, each with the lang it captured
  nFetch,       \* number of customFetch calls issued so far
  nChange,      \* number of language changes so far
  last,         \* the last step taken and what it observed
  doc,          \* parser harness: the document handed to parseYamlConfig
  plang,        \* parser harness: the language handed to parseYamlConfig
  result,       \* parser harness: outcome of the call (or NotCalled)
  jsonAfter     \* parser harness: the parsed document's entries as the call left them

vars == <<language, fields, loading, error, fetchedYaml, render, pending, inflight,
          nFetch, nChange, last, doc, plang, result, jsonAfter>>
hookVars == <<language, fields, loading, error, fetchedYaml, render, pending, inflight,
              nFetch, nChange, last>>
parseVars == <<doc, plang, result, jsonAfter>>

---------------------------------------------------------------------------
(* Bounds of the model *)

MaxEntries == 3      \* entries per generated document
MaxChanges == 2      \* language changes over one run of the hook

---------------------------------------------------------------------------
(* JavaScript values *)

Undefined == [kind |-> "undefined"]
Str(s) == [kind |-> "string", s |-> s]
Map(m) == [kind |-> "map", m |-> m]
Arr(items) == [kind |-> "seq", items |-> items]
Obj(errorMessage) == [kind |-> "object", errorMessage |-> errorMessage]

NoKey == "undefined"     \* a scalar attribute (type, dataKey) that is not set
NULL == [class |-> "null"]

\* src/i18n/constants: the locale used when i18n.language is unset
DEFAULT_LOCALE == "en-GB"
NoLanguage == ""
\* the locales the language menu offers when the environment supports them all
Languages == {"en-GB", "en-US", "es-ES", "es-AR"}

FieldNames == <<"f1", "f2", "f3", "f4", "f5", "f6">>
\* the largest array index, 2^32 - 2, as a property key
MaxArrayIndexName == "4294967294"

---------------------------------------------------------------------------
(* Errors (class + the interpolated parts of the message) *)

MissingLabelError(name, lang) ==
  [class |-> "ConfigurationError", msg |-> "Missing label for field", name |-> name, arg |-> lang]
InvalidTypeError(name, type) ==
  [class |-> "ConfigurationError", msg |-> "Invalid field type for", name |-> name, arg |-> type]
DuplicateDataKeyError(dataKey) ==
  [class |-> "ConfigurationError", msg |-> "Duplicate dataKey", name |-> "", arg |-> dataKey]
ConstructorError(name, what) ==
  [class |-> "Error", msg |-> "Invalid field definition", name |-> name, arg |-> what]
NullDocumentError ==
  [class |-> "TypeError", msg |-> "Cannot convert undefined or null to object", name |-> "", arg |-> ""]
\* what customFetch rejects with when the request for fields-<lang>.yaml fails
FetchError(lang) ==
  [class |-> "Error", msg |-> "Failed to fetch fields configuration from", name |-> "", arg |-> lang]
\* what response.text() rejects with
BodyReadError ==
  [class |-> "TypeError", msg |-> "body stream already read", name |-> "", arg |-> ""]
\* a rejection with a value that is not an Error
NonErrorRejection ==
  [class |-> "string", msg |-> "boom", name |-> "", arg |-> ""]
\* line 57 and line 75: the errors the hook makes up for such a value
FetchFallbackError ==
  [class |-> "Error", msg |-> "Unknown error loading configuration", name |-> "", arg |-> ""]
ParseFallbackError ==
  [class |-> "Error", msg |-> "Error parsing configuration", name |-> "", arg |-> ""]

Ok(v) == [ok |-> TRUE, value |-> v, err |-> NULL]
Throw(e) == [ok |-> FALSE, value |-> <<>>, err |-> e]

---------------------------------------------------------------------------
(* parseYamlConfig *)

\* FieldType (./types)
FieldTypeString == "STRING"
FieldTypeEnum == "ENUM"
FieldTypeMultipleSelect == "MULTIPLE_SELECT"

\* JavaScript truthiness of a label / values / errorMessage value
Truthy(v) == v.kind # "undefined" /\ (v.kind = "string" => v.s # "")

\* typeof v === "object": mappings and sequences alike
IsObject(v) == v.kind \in {"map", "seq", "object"}

\* obj[key] on a language-keyed mapping whose entries are strings
GetStr(m, key) == IF key \in DOMAIN m THEN Str(m[key]) ELSE Undefined
\* v[key] for a language key: the entry of a mapping of strings; a sequence has
\* no property of that name
StrAt(v, key) == IF v.kind = "map" THEN GetStr(v.m, key) ELSE Undefined
\* obj[key] on a language-keyed mapping whose entries are sequences
GetArr(m, key) == IF key \in DOMAIN m THEN Arr(m[key]) ELSE Undefined

\* yaml's parse(): an empty text yields null, a mapping yields an object with
\* the keys in document order
YamlParse(yamlText) ==
  IF yamlText.kind = "empty" THEN [isNull |-> TRUE, entries |-> <<>>]
  ELSE [isNull |-> FALSE, entries |-> yamlText.entries]

\* mutants of the label check: a plain-string label rejected, and the language
\* key of a label mapping not looked up
LabelMissingRequiresMap(field, lang) ==
  \/ ~Truthy(field.label)
  \/ field.label.kind # "map"
  \/ ~Truthy(GetStr(field.label.m, lang))
LabelMissingIgnoresLang(field, lang) ==
  ~Truthy(field.label)

\* line 109: !field.label || (typeof field.label === "object" && !field.label[lang])
LabelMissing(field, lang) ==
  \/ ~Truthy(field.label)
  \/ IsObject(field.label) /\ ~Truthy(StrAt(field.label, lang))

\* lines 113-115
LocalizeLabel(field, lang) ==
  IF IsObject(field.label)
    THEN [field EXCEPT !.label = StrAt(field.label, lang)]
    ELSE field

\* mutant of the values localization: no Array.isArray test, so a sequence is
\* indexed by the language as well
LocalizeValuesIndexesArrays(field, lang) ==
  IF Truthy(field.values) /\ field.values.kind = "map"
    THEN [field EXCEPT !.values = GetArr(field.values.m, lang)]
  ELSE IF Truthy(field.values) /\ field.values.kind = "seq"
    THEN [field EXCEPT !.values = Undefined]
  ELSE field

\* lines 118-120
LocalizeValues(field, lang) ==
  IF Truthy(field.values) /\ field.values.kind = "map"
    THEN [field EXCEPT !.values = GetArr(field.values.m, lang)]
    ELSE field

\* lines 123-128
LocalizeValidation(field, lang) ==
  IF /\ field.validation.kind = "object"
     /\ Truthy(field.validation.errorMessage)
     /\ IsObject(field.validation.errorMessage)
    THEN [field EXCEPT !.validation =
            Obj(StrAt(field.validation.errorMessage, lang))]
    ELSE field

\* The constructors of StringFieldDefinition, EnumFieldDefinition and
\* MultipleSelectFieldDefinition (./types): validate and copy the attributes.
NewFieldDefinition(props) ==
  IF props.dataKey = NoKey
    THEN Throw(ConstructorError(props.name, "dataKey"))
  ELSE IF /\ props.type \in {FieldTypeEnum, FieldTypeMultipleSelect}
          /\ ~(props.values.kind = "seq" /\ Len(props.values.items) > 0)
    THEN Throw(ConstructorError(props.name, "values"))
  ELSE Ok(props)

\* mutant of the switch: the default branch builds a STRING field
ConstructDefaultsToString(field, name) ==
  NewFieldDefinition([name |-> name, type |-> field.type, label |-> field.label,
                      values |-> field.values, validation |-> field.validation,
                      dataKey |-> field.dataKey])

\* lines 130-139: switch (field.type)
Construct(field, name) ==
  IF field.type \in {FieldTypeString, FieldTypeEnum, FieldTypeMultipleSelect}
    THEN NewFieldDefinition([name |-> name, type |-> field.type, label |-> field.label,
                             values |-> field.values, validation |-> field.validation,
                             dataKey |-> field.dataKey])
    ELSE Throw(InvalidTypeError(name, field.type))

\* mutant of line 106: const field = rawField, one object under two names
AliasField(rawField) == [raw |-> rawField, field |-> rawField, same |-> TRUE]

\* line 106: const field = { ...rawField }.  The two objects of the callback:
\* raw is the record of the parsed document, field the one the callback works
\* on; same tells whether they are one object.
SpreadField(rawField) == [raw |-> rawField, field |-> rawField, same |-> FALSE]

\* lines 114, 119, 124: an assignment field.<attribute> = ..., after which field
\* reads as written; the record of the document changes with it only when field
\* is that very object
AssignField(objs, written) ==
  [objs EXCEPT !.field = written,
               !.raw = IF objs.same THEN written ELSE objs.raw]

\* lines 113-128: the three localization steps, run once the label check passed
Localize(rawField, lang) ==
  LET o0 == SpreadField(rawField)
      o1 == AssignField(o0, LocalizeLabel(o0.field, lang))
      o2 == AssignField(o1, LocalizeValues(o1.field, lang))
  IN AssignField(o2, LocalizeValidation(o2.field, lang))

\* lines 104-140: the callback of Object.entries(yamlJson).map
BuildField(name, rawField, lang) ==
  IF LabelMissing(SpreadField(rawField).field, lang)
    THEN Throw(MissingLabelError(name, lang))
    ELSE Construct(Localize(rawField, lang).field, name)

\* lines 104-128: the record of the document as the callback leaves it
RawAfterBuild(rawField, lang) ==
  IF LabelMissing(SpreadField(rawField).field, lang)
    THEN SpreadField(rawField).raw
    ELSE Localize(rawField, lang).raw

\* mutant of Object.entries: the keys in document order
ObjectEntriesInDocumentOrder(entries) == entries

\* line 104: Object.entries lists the keys that are array indices first, in
\* ascending numeric order, then the other keys in the order they were added
\* the character of a key at position k, and its place among the decimal digits
CharAt(name, k) == SubSeq(name, k, k)
DecimalDigits == <<"0", "1", "2", "3", "4", "5", "6", "7", "8", "9">>
DigitChars == {DecimalDigits[d] : d \in 1..Len(DecimalDigits)}
IsDigit(c) == c \in DigitChars
DigitOf(c) == CHOOSE d \in 1..Len(DecimalDigits) : DecimalDigits[d] = c
\* of two digit strings of the same length, a stands for the smaller number
RECURSIVE DigitsBefore(_, _)
DigitsBefore(a, b) ==
  IF a = "" THEN FALSE
  ELSE IF CharAt(a, 1) # CharAt(b, 1) THEN DigitOf(CharAt(a, 1)) < DigitOf(CharAt(b, 1))
  ELSE DigitsBefore(Tail(a), Tail(b))
\* of two canonical numeric strings, a stands for the smaller number
IndexBefore(a, b) ==
  \/ Len(a) < Len(b)
  \/ Len(a) = Len(b) /\ DigitsBefore(a, b)
\* a key is an array index when it is the canonical decimal form (no sign, no
\* leading zero) of an integer from 0 to 2^32 - 2
IsArrayIndex(name) ==
  /\ Len(name) > 0
  /\ \A k \in 1..Len(name) : IsDigit(CharAt(name, k))
  /\ Len(name) > 1 => CharAt(name, 1) # "0"
  /\ ~IndexBefore(MaxArrayIndexName, name)
\* e put into a sequence of entries sorted by array index
RECURSIVE InsertByIndex(_, _)
InsertByIndex(sorted, e) ==
  IF sorted = <<>> THEN <<e>>
  ELSE IF IndexBefore(e.name, Head(sorted).name) THEN <<e>> \o sorted
  ELSE <<Head(sorted)>> \o InsertByIndex(Tail(sorted), e)
\* the entries whose keys are array indices, in ascending numeric order
RECURSIVE IndexEntries(_)
IndexEntries(entries) ==
  IF entries = <<>> THEN <<>>
  ELSE IF IsArrayIndex(Head(entries).name)
    THEN InsertByIndex(IndexEntries(Tail(entries)), Head(entries))
    ELSE IndexEntries(Tail(entries))
ObjectEntries(entries) ==
  IndexEntries(entries) \o SelectSeq(entries, LAMBDA e : ~IsArrayIndex(e.name))

\* mutant of the map: the dataKey of a field is checked against the fields built
\* so far as soon as the field is built
RECURSIVE MapEntriesChecksDuplicates(_, _, _)
MapEntriesChecksDuplicates(entries, lang, acc) ==
  IF entries = <<>> THEN Ok(acc)
  ELSE LET built == BuildField(Head(entries).name, Head(entries).raw, lang)
       IN IF ~built.ok THEN Throw(built.err)
          ELSE IF \E k \in 1..Len(acc) : acc[k].dataKey = built.value.dataKey
            THEN Throw(DuplicateDataKeyError(built.value.dataKey))
          ELSE MapEntriesChecksDuplicates(Tail(entries), lang, Append(acc, built.value))

\* line 104: map over the entries in key order; the first throw aborts the map
RECURSIVE MapEntries(_, _, _)
MapEntries(entries, lang, acc) ==
  IF entries = <<>> THEN Ok(acc)
  ELSE LET built == BuildField(Head(entries).name, Head(entries).raw, lang)
       IN IF built.ok
            THEN MapEntries(Tail(entries), lang, Append(acc, built.value))
            ELSE Throw(built.err)

\* line 104: the entries of the parsed document once the map has returned or
\* thrown; the entries after the one that threw are never visited
RECURSIVE EntriesAfterMap(_, _)
EntriesAfterMap(entries, lang) ==
  IF entries = <<>> THEN <<>>
  ELSE LET e == Head(entries)
           after == [name |-> e.name, raw |-> RawAfterBuild(e.raw, lang)]
       IN IF BuildField(e.name, e.raw, lang).ok
            THEN <<after>> \o EntriesAfterMap(Tail(entries), lang)
            ELSE <<after>> \o Tail(entries)

\* lines 143-149: the first field whose dataKey was already seen throws
RECURSIVE CheckDuplicates(_, _)
CheckDuplicates(fieldDefinitions, dataKeys) ==
  IF fieldDefinitions = <<>> THEN Ok(<<>>)
  ELSE IF Head(fieldDefinitions).dataKey \in dataKeys
    THEN Throw(DuplicateDataKeyError(Head(fieldDefinitions).dataKey))
  ELSE CheckDuplicates(Tail(fieldDefinitions),
                       dataKeys \cup {Head(fieldDefinitions).dataKey})

\* lines 94-156
parseYamlConfig(yamlText, lang) ==
  LET yamlJson == YamlParse(yamlText)
  IN IF yamlJson.isNull THEN Throw(NullDocumentError)
     ELSE LET mapped == MapEntries(ObjectEntries(yamlJson.entries), lang, <<>>)
          IN IF ~mapped.ok THEN mapped
             ELSE LET dup == CheckDuplicates(mapped.value, {})
                  IN IF ~dup.ok THEN dup ELSE Ok(mapped.value)

\* lines 96-149: the object parse() returned, as parseYamlConfig leaves it; the
\* duplicate check only reads
JsonAfterParse(yamlText, lang) ==
  LET parsed == YamlParse(yamlText)
      visited == EntriesAfterMap(ObjectEntries(parsed.entries), lang)
  IN IF parsed.isNull THEN <<>>
     ELSE [i \in 1..Len(parsed.entries) |->
             visited[CHOOSE k \in 1..Len(visited) : visited[k].name = parsed.entries[i].name]]

---------------------------------------------------------------------------
(* Documents *)

Entry(name, raw) == [name |-> name, raw |-> raw]
Mapping(entries) == [kind |-> "mapping", entries |-> entries]
EmptyText == [kind |-> "empty", entries |-> <<>>]

Both(en, es) == [l \in {"en-GB", "es-ES"} |-> IF l = "en-GB" THEN en ELSE es]
EnOnly(en) == [l \in {"en-GB"} |-> en]
NoEntries == [l \in {} |-> ""]

\* a STRING field localized for every language
RawString(dataKey) ==
  [type |-> FieldTypeString, label |-> Map(Both("First name", "Nombre")),
   values |-> Undefined, validation |-> Obj(Map(Both("Invalid", "No valido"))),
   dataKey |-> dataKey]
\* an ENUM field with a plain label and language-keyed values
RawEnum(dataKey) ==
  [type |-> FieldTypeEnum, label |-> Str("Country"),
   values |-> Map(Both(<<"US", "CA">>, <<"EEUU", "CA">>)), validation |-> Undefined,
   dataKey |-> dataKey]
\* a MULTIPLE_SELECT field with plain values whose label has "en-GB" only
RawMultiEnOnly(dataKey) ==
  [type |-> FieldTypeMultipleSelect, label |-> Map(EnOnly("Skills")),
   values |-> Arr(<<"b", "a">>), validation |-> Obj(Str("Pick one")),
   dataKey |-> dataKey]
\* a field without label
RawNoLabel(dataKey) ==
  [type |-> FieldTypeString, label |-> Undefined,
   values |-> Undefined, validation |-> Undefined, dataKey |-> dataKey]
\* a field whose label mapping is empty
RawEmptyLabel(dataKey) ==
  [type |-> FieldTypeString, label |-> Map(NoEntries),
   values |-> Undefined, validation |-> Undefined, dataKey |-> dataKey]
\* a field of an unknown type
RawBadType(dataKey) ==
  [type |-> "NUMBER", label |-> Map(Both("Age", "Edad")),
   values |-> Undefined, validation |-> Undefined, dataKey |-> dataKey]
\* an ENUM field whose values have "en-GB" only
RawEnumValuesEnOnly(dataKey) ==
  [type |-> FieldTypeEnum, label |-> Map(Both("Gender", "Genero")),
   values |-> Map(EnOnly(<<"F", "M">>)), validation |-> Undefined,
   dataKey |-> dataKey]

\* a field of an unknown type that has no label either
RawBadTypeNoLabel(dataKey) ==
  [type |-> "NUMBER", label |-> Undefined,
   values |-> Undefined, validation |-> Undefined, dataKey |-> dataKey]
\* a MULTIPLE_SELECT field with a plain label and plain values
RawMultiPlain(dataKey) ==
  [type |-> FieldTypeMultipleSelect, label |-> Str("Tags"),
   values |-> Arr(<<"b", "a">>), validation |-> Undefined, dataKey |-> dataKey]
\* a STRING field that carries values, for "en-GB" only
RawStringValuesEnOnly(dataKey) ==
  [type |-> FieldTypeString, label |-> Str("Title"),
   values |-> Map(EnOnly(<<"Mr", "Ms">>)), validation |-> Undefined,
   dataKey |-> dataKey]

\* a field whose label is a sequence
RawSeqLabel(dataKey) ==
  [type |-> FieldTypeString, label |-> Arr(<<"a", "b">>),
   values |-> Undefined, validation |-> Undefined, dataKey |-> dataKey]
\* a field whose label is the empty string
RawBlankLabel(dataKey) ==
  [type |-> FieldTypeString, label |-> Str(""),
   values |-> Undefined, validation |-> Undefined, dataKey |-> dataKey]
\* a field whose label mapping has an empty entry for "es-ES"
RawBlankEsLabel(dataKey) ==
  [type |-> FieldTypeString, label |-> Map(Both("Title", "")),
   values |-> Undefined, validation |-> Undefined, dataKey |-> dataKey]
\* a STRING field whose validation message is a sequence
RawSeqErrorMessage(dataKey) ==
  [type |-> FieldTypeString, label |-> Str("Notes"),
   values |-> Undefined, validation |-> Obj(Arr(<<"a", "b">>)), dataKey |-> dataKey]

DataKeys == {"x", "y", "z"}
\* The records a generated document is made of.  The dataKey only matters to the
\* duplicate check, so one shape comes with every dataKey, one with two of them
\* and the others with one; the callback throws on the last six before
\* anything reads their dataKey.
RawFields ==
  {RawString(k) : k \in DataKeys} \cup {RawEnum("x"), RawEnum("y")}
  \cup {RawMultiEnOnly("y"), RawEnumValuesEnOnly("y"), RawStringValuesEnOnly("y"),
        RawMultiPlain("z"), RawSeqErrorMessage("z"), RawBlankEsLabel("z")}
  \cup {RawNoLabel("x"), RawEmptyLabel("x"), RawBadType("x"), RawBadTypeNoLabel("x"),
        RawSeqLabel("x"), RawBlankLabel("x")}

\* a document with the given keys in document order; an entry's name is its
\* key, so names are pairwise distinct
GenDocNamed(names, raws) ==
  Mapping([i \in 1..Len(names) |-> Entry(names[i], raws[i])])
\* a document of n entries with the keys f1, f2, ...
GenDoc(n, raws) == GenDocNamed(SubSeq(FieldNames, 1, n), raws)

\* documents some of whose keys are array indices, written in descending order
IndexedKeyOrders ==
  {<<"2", "1">>, <<"f1", "f2", "2", "1">>, <<"10", "9">>, <<"b", "0", "a">>,
   <<"3", "f1", "1">>, <<"01", "1">>, <<"4294967295", "4294967294">>}
IndexedRawFields ==
  {RawString(k) : k \in DataKeys} \cup {RawNoLabel("x"), RawBadType("x")}

\* what the server may answer to GET <base>/fields-<lang>.yaml: a document
\* that parses for "en-GB" and "es-ES" and lacks the labels of the other
\* locales, or an empty body
DocBoth == Mapping(<<Entry("firstName", RawString("firstName")),
                     Entry("country", RawEnum("country"))>>)
ServerDocs == {DocBoth, EmptyText}

---------------------------------------------------------------------------
(* useFieldsConfig *)

\* line 30: i18n.language || DEFAULT_LOCALE
EffLang(l) == IF l = NoLanguage THEN DEFAULT_LOCALE ELSE l

Step(op, started, parse) == [op |-> op, started |-> started, parse |-> parse]

RemoveAt(seq, i) == SubSeq(seq, 1, i - 1) \o SubSeq(seq, i + 1, Len(seq))

\* Scheduling.  The state variables hold the latest values the set* calls
\* gave them.  A render takes a snapshot: the effects it schedules are closures
\* over the fetchedYaml of that render, and the next render compares its
\* dependencies with those of this one.  i18n is a mutable object, so an effect
\* reads i18n.language as it is when the effect runs.  React runs the scheduled
\* effects, in declaration order, before it renders again; a language change
\* or a fetch continuation can come at any time, also between a render and its
\* effects.

\* what a render leaves behind: the i18n.language and fetchedYaml it saw
Rendered(lang, yaml) == [lang |-> lang, yaml |-> yaml, needed |-> FALSE, newYaml |-> FALSE]
\* a set* call, or the languageChanged event, asks for a render
Invalidate(r) == [r EXCEPT !.needed = TRUE]
\* setFetchedYaml stores a new object, which differs from that of the last render
InvalidateYaml(r) == [r EXCEPT !.needed = TRUE, !.newYaml = TRUE]

\* line 57 and line 75: err instanceof Error ? err : new Error(...)
IsError(e) == e.class \in {"Error", "TypeError", "ConfigurationError"}
ToError(e, fallback) == IF IsError(e) THEN e ELSE fallback

\* what the await of customFetch and of response.text() can throw for a fetch
\* issued for lang
Rejections(lang) == {FetchError(lang), BodyReadError, NonErrorRejection}

\* i18n.changeLanguage(l), for a locale l of the language menu, takes effect:
\* i18n.language is l and the languageChanged event makes the hook render again
ChangeLanguage(l) ==
  /\ nChange < MaxChanges
  /\ l # language
  /\ language' = l
  /\ render' = Invalidate(render)
  /\ nChange' = nChange + 1
  /\ last' = Step("change", FALSE, "none")
  /\ UNCHANGED <<fields, loading, error, fetchedYaml, pending, inflight, nFetch>>

\* the hook function runs again: lines 22-26 read the state, and the effects
\* whose dependencies (lines 63 and 80) differ from the last render's are
\* scheduled
Render ==
  /\ pending = <<>>
  /\ render.needed
  /\ pending' = (IF render.lang # language THEN <<"fetch">> ELSE <<>>)
                \o (IF render.lang # language \/ render.newYaml THEN <<"parse">> ELSE <<>>)
  /\ render' = Rendered(language, fetchedYaml)
  /\ last' = Step("render", FALSE, "none")
  /\ UNCHANGED <<language, fields, loading, error, fetchedYaml, inflight, nFetch, nChange>>

\* mutants of the guard of the fetch effect: keyed by language, and never taken
FetchSkippedPerLanguage(seenYaml, lang) == seenYaml # NULL /\ seenYaml.lang = lang
FetchSkippedNever(seenYaml, lang) == FALSE

\* lines 34-36: if (fetchedYaml) return, on the fetchedYaml of the render
FetchSkipped(seenYaml, lang) == seenYaml # NULL

\* lines 29-63: the fetch effect, up to the await of customFetch
FetchEffect ==
  /\ pending # <<>> /\ Head(pending) = "fetch"
  /\ pending' = Tail(pending)
  /\ IF FetchSkipped(render.yaml, EffLang(language))
       THEN /\ last' = Step("fetchEffect", FALSE, "none")
            /\ UNCHANGED <<loading, inflight, nFetch, render>>
       ELSE /\ loading' = TRUE
            /\ inflight' = Append(inflight, EffLang(language))
            /\ nFetch' = nFetch + 1
            /\ render' = Invalidate(render)
            /\ last' = Step("fetchEffect", TRUE, "none")
  /\ UNCHANGED <<language, fields, error, fetchedYaml, nChange>>

\* line 68: const currentLang = i18n.language || DEFAULT_LOCALE
ParseLanguage(seenYaml, current) == EffLang(current)

\* mutant of lines 71-72: the error is not cleared by a successful parse
ErrorKeptAfterParse(parsed, err) ==
  IF parsed.ok THEN err ELSE ToError(parsed.err, ParseFallbackError)
\* lines 72 and 75
ErrorAfterParse(parsed, err) ==
  IF parsed.ok THEN NULL ELSE ToError(parsed.err, ParseFallbackError)

\* mutant of line 71: a failed parse clears the fields
FieldsClearedByFailure(parsed, flds) == IF parsed.ok THEN parsed.value ELSE <<>>
\* line 71: setFields is only reached when parseYamlConfig returned
FieldsAfterParse(parsed, flds) == IF parsed.ok THEN parsed.value ELSE flds

\* mutant of lines 76-78: no finally block
LoadingKeptAfterParse(ld) == ld
\* lines 76-78: finally { setLoading(false) }
LoadingAfterParse(ld) == FALSE

\* lines 66-80: the parse effect, on the fetchedYaml of the render
ParseEffect ==
  /\ pending # <<>> /\ Head(pending) = "parse"
  /\ pending' = Tail(pending)
  /\ IF render.yaml # NULL
       THEN LET parsed == parseYamlConfig(render.yaml.yaml,
                                          ParseLanguage(render.yaml, language))
            IN /\ fields' = FieldsAfterParse(parsed, fields)
               /\ error' = ErrorAfterParse(parsed, error)
               /\ loading' = LoadingAfterParse(loading)
               /\ render' = Invalidate(render)
               /\ last' = Step("parseEffect", FALSE, IF parsed.ok THEN "ok" ELSE "failed")
       ELSE /\ last' = Step("parseEffect", FALSE, "none")
            /\ UNCHANGED <<fields, error, loading, render>>
  /\ UNCHANGED <<language, fetchedYaml, inflight, nFetch, nChange>>

\* mutant of the success branch: a response requested for another language than
\* the current one is dropped
FetchSucceedDiscardsStale(i, yamlText) ==
  /\ i \in 1..Len(inflight)
  /\ inflight' = RemoveAt(inflight, i)
  /\ last' = Step("fetchSucceed", FALSE, "none")
  /\ IF inflight[i] = EffLang(language)
       THEN /\ fetchedYaml' = [yaml |-> yamlText, lang |-> inflight[i]]
            /\ error' = NULL
            /\ render' = InvalidateYaml(render)
       ELSE UNCHANGED <<fetchedYaml, error, render>>
  /\ UNCHANGED <<language, fields, loading, pending, nFetch, nChange>>

\* lines 52-54: customFetch resolved and the body was read
FetchSucceed(i, yamlText) ==
  /\ i \in 1..Len(inflight)
  /\ fetchedYaml' = [yaml |-> yamlText, lang |-> inflight[i]]
  /\ error' = NULL
  /\ inflight' = RemoveAt(inflight, i)
  /\ render' = InvalidateYaml(render)
  /\ last' = Step("fetchSucceed", FALSE, "none")
  /\ UNCHANGED <<language, fields, loading, pending, nFetch, nChange>>

\* mutants of the failure branch: loading is not reset; the fetch is issued
\* again
FetchFailKeepsLoading(i, thrown) ==
  /\ i \in 1..Len(inflight)
  /\ error' = ToError(thrown, FetchFallbackError)
  /\ inflight' = RemoveAt(inflight, i)
  /\ render' = Invalidate(render)
  /\ last' = Step("fetchFail", FALSE, "none")
  /\ UNCHANGED <<language, fields, loading, fetchedYaml, pending, nFetch, nChange>>
FetchFailRetries(i, thrown) ==
  /\ i \in 1..Len(inflight)
  /\ nFetch <= MaxChanges
  /\ error' = ToError(thrown, FetchFallbackError)
  /\ loading' = FALSE
  /\ inflight' = Append(RemoveAt(inflight, i), inflight[i])
  /\ nFetch' = nFetch + 1
  /\ render' = Invalidate(render)
  /\ last' = Step("fetchFail", FALSE, "none")
  /\ UNCHANGED <<language, fields, fetchedYaml, pending, nChange>>

\* lines 55-59: customFetch or response.text() rejected with thrown
FetchFail(i, thrown) ==
  /\ i \in 1..Len(inflight)
  /\ error' = ToError(thrown, FetchFallbackError)
  /\ loading' = FALSE
  /\ inflight' = RemoveAt(inflight, i)
  /\ render' = Invalidate(render)
  /\ last' = Step("fetchFail", FALSE, "none")
  /\ UNCHANGED <<language, fields, fetchedYaml, pending, nFetch, nChange>>

NotCalled == [ok |-> FALSE, value |-> <<>>, err |-> [class |-> "not called"]]

\* lines 23-26: the first render; both effects run after it
HookInit ==
  /\ language \in Languages \cup {NoLanguage}
  /\ fields = <<>>
  /\ loading = TRUE
  /\ error = NULL
  /\ fetchedYaml = NULL
  /\ render = Rendered(language, NULL)
  /\ pending = <<"fetch", "parse">>
  /\ inflight = <<>>
  /\ nFetch = 0
  /\ nChange = 0
  /\ last = Step("mount", FALSE, "none")

Init ==
  /\ HookInit
  /\ doc = EmptyText
  /\ plang = DEFAULT_LOCALE
  /\ result = NotCalled
  /\ jsonAfter = <<>>

Next ==
  \/ \E l \in Languages : ChangeLanguage(l) /\ UNCHANGED parseVars
  \/ Render /\ UNCHANGED parseVars
  \/ FetchEffect /\ UNCHANGED parseVars
  \/ ParseEffect /\ UNCHANGED parseVars
  \/ \E i \in 1..Len(inflight), y \in ServerDocs : FetchSucceed(i, y) /\ UNCHANGED parseVars
  \/ \E i \in 1..Len(inflight) :
       \E thrown \in Rejections(inflight[i]) : FetchFail(i, thrown) /\ UNCHANGED parseVars

Spec == Init /\ [][Next]_vars

---------------------------------------------------------------------------
(* parseYamlConfig called on its own *)

CallParse ==
  /\ result = NotCalled
  /\ result' = parseYamlConfig(doc, plang)
  /\ jsonAfter' = JsonAfterParse(doc, plang)
  /\ UNCHANGED <<doc, plang>>
  /\ UNCHANGED hookVars

InitParse ==
  /\ HookInit
  /\ language = DEFAULT_LOCALE
  /\ \/ doc = EmptyText
     \/ \E n \in 0..MaxEntries : \E raws \in [1..n -> RawFields] : doc = GenDoc(n, raws)
     \/ \E names \in IndexedKeyOrders :
          \E raws \in [1..Len(names) -> IndexedRawFields] : doc = GenDocNamed(names, raws)
  /\ plang \in Languages
  /\ result = NotCalled
  /\ jsonAfter = <<>>

NextParse == CallParse

SpecParse == InitParse /\ [][NextParse]_vars

---------------------------------------------------------------------------
(* Steps of the hook, as the properties below recognise them *)

\* a document has been stored (setFetchedYaml was called)
Cached == fetchedYaml # NULL
\* the last render saw a stored document: its effects are closures over it
Seen == render.yaml # NULL
LanguageChangeStep == language' # language
RenderStep == render.needed /\ ~render'.needed
FetchEffectStep == pending # <<>> /\ Head(pending) = "fetch" /\ pending' = Tail(pending)
ParseEffectStep == pending # <<>> /\ Head(pending) = "parse" /\ pending' = Tail(pending)
FetchFailStep == last'.op = "fetchFail" /\ Len(inflight') < Len(inflight)
FetchStarted == nFetch' # nFetch \/ Len(inflight') > Len(inflight)
\* the stored document, and the document the effects hold, parsed for the
\* current language
ParsedNow == parseYamlConfig(fetchedYaml.yaml, EffLang(language))
ParsedSeen == parseYamlConfig(render.yaml.yaml, EffLang(language))

---------------------------------------------------------------------------
(* The hook under fair scheduling *)

\* the hook function runs again when a render was asked for and no effect of
\* the last render is left to run
RenderTaken == pending = <<>> /\ render.needed /\ render' = Rendered(language, fetchedYaml)
\* lines 43-59: an outstanding customFetch resolves or rejects
SettleTaken == \E i \in 1..Len(inflight) : inflight' = RemoveAt(inflight, i)

\* The hook where React renders when asked to, runs every scheduled effect, and
\* every started fetch settles; language changes may stop at any time.  Each
\* condition names a step by the one variable that tells it apart: only Render
\* clears render.needed, only an effect takes itself off the queue, and only a
\* settling fetch leaves the requests in flight.
FairSpec ==
  /\ Spec
  /\ WF_render(RenderTaken)
  /\ WF_pending(FetchEffectStep)
  /\ WF_pending(ParseEffectStep)
  /\ WF_inflight(SettleTaken)

---------------------------------------------------------------------------
(* C1 *)

\* C1: once a raw document is cached (fetchedYaml non-null) it stays cached and
\* no later step - in particular no language change, to any language, nor a
\* fetch effect that runs after it - issues a new fetch.
C1_NoFetchOnceCached ==
  [][Cached => (Cached' /\ ~FetchStarted)]_vars

\* the state the property excludes: a fetch effect scheduled by a render that
\* saw no document ran after a document had been stored and the language had
\* changed again, and issued a fetch for that language
C1_Witness ==
  /\ last.op = "fetchEffect" /\ last.started
  /\ Cached /\ ~Seen /\ nChange >= 2
  /\ inflight = <<EffLang(language)>>
  /\ fetchedYaml.lang # EffLang(language)

---------------------------------------------------------------------------
(* C2 *)

\* C2: when the language has changed while a document is cached, the render
\* that follows has the document parsed again for the new language by scheduling
\* the parse effect, unless the published fields are those of the new language
\* already or the document does not parse for it.
C2_ReparseOnLanguageChange ==
  [][(Cached /\ last.op = "change" /\ RenderStep) =>
       \/ pending' # <<>> /\ pending'[Len(pending')] = "parse"
       \/ ParsedNow.ok => fields = ParsedNow.value]_vars

\* the state the property excludes: the hook rendered for "en-GB" with the
\* document cached, the language was "es-ES" when the parse effect of that
\* render ran and "en-GB" again at the next render, which scheduled nothing; the
\* published fields are the "es-ES" ones
C2_Witness ==
  /\ last.op = "render" /\ pending = <<>>
  /\ Cached /\ nChange = 2 /\ nFetch = 1
  /\ render.lang = "en-GB" /\ language = "en-GB"
  /\ fields = parseYamlConfig(fetchedYaml.yaml, "es-ES").value
  /\ fields # parseYamlConfig(fetchedYaml.yaml, "en-GB").value

---------------------------------------------------------------------------
(* C3 *)

\* C3 (as stated): no two fetches are ever in flight at once and at most one
\* fetch is ever started over the lifetime of the instance.
C3_AtMostOneFetch ==
  Len(inflight) <= 1 /\ nFetch <= 1

\* C3 (amended): a fetch is started only by the fetch effect, one at a time, and
\* only when the render that scheduled the effect saw no cached document; that
\* effect is scheduled by the first render and by a render that finds the
\* language changed, so at most 1 + (number of language changes) fetches are
\* ever started, and those started before the first one settles may be in
\* flight together.
C3_FetchOnlyWhileUnseen ==
  /\ [][FetchStarted =>
          (/\ ~Seen /\ FetchEffectStep
           /\ nFetch' = nFetch + 1
           /\ inflight' = Append(inflight, EffLang(language)))]_vars
  /\ [][(RenderStep /\ render.lang = language) => (\A k \in 1..Len(pending') : pending'[k] # "fetch")]_vars
  /\ [](nFetch <= 1 + nChange /\ Len(inflight) <= nFetch)

\* two fetches in flight at once: the language changed before the first settled
C3_Witness ==
  /\ Len(inflight) = 2 /\ nFetch = 2 /\ ~Cached
  /\ last.op = "fetchEffect" /\ last.started

---------------------------------------------------------------------------
(* C4 *)

\* C4 (as stated): once a document was fetched for language L, the fetch effect
\* of a change to another language L' issues a fresh fetch for L', and the one
\* of a change back to L issues none.
C4_RefetchForOtherLanguage ==
  [][(Seen /\ FetchEffectStep) =>
       IF EffLang(language) # fetchedYaml.lang
         THEN nFetch' = nFetch + 1 /\ inflight' = Append(inflight, EffLang(language))
         ELSE ~FetchStarted]_vars

\* C4 (amended): once a document fetched for language L is cached, every render
\* sees it, and the fetch effect of a render that saw it issues no fetch,
\* whether the language is L itself or another L': the number of fetches and
\* the outstanding fetches stay as they were.
C4_NoRefetchForAnyLanguage ==
  /\ [][(Cached /\ RenderStep) => Seen']_vars
  /\ [][(Seen /\ FetchEffectStep) =>
          (nFetch' = nFetch /\ inflight' = inflight /\ loading' = loading)]_vars

\* after a change away from and back to the fetched language, the fetch effect
\* ran and issued nothing
C4_Witness ==
  /\ last.op = "fetchEffect" /\ ~last.started
  /\ Seen /\ nChange >= 2
  /\ fetchedYaml.lang = EffLang(language)

---------------------------------------------------------------------------
(* C5 *)

\* C5: when the parse effect parses the cached document successfully, the next
\* state has fields = the whole parsed sequence, error = null, loading = false.
C5_ParseSuccessPublishes ==
  [][(Seen /\ ParseEffectStep /\ ParsedSeen.ok) =>
       (fields' = ParsedSeen.value /\ error' = NULL /\ loading' = FALSE)]_vars

\* after a language change a successful parse published a non-empty sequence
C5_Witness ==
  /\ last.op = "parseEffect" /\ last.parse = "ok"
  /\ fields # <<>> /\ error = NULL /\ ~loading
  /\ nChange > 0

---------------------------------------------------------------------------
(* C6 *)

\* C6: when the parse effect fails to parse the cached document, the next state
\* has error = the error thrown (non-null), loading = false, and fields exactly
\* as before.
C6_ParseFailureKeepsFields ==
  [][(Seen /\ ParseEffectStep /\ ~ParsedSeen.ok) =>
       (/\ error' = ParsedSeen.err /\ error' # NULL
        /\ loading' = FALSE
        /\ fields' = fields)]_vars

\* a failed parse left a non-empty, earlier field sequence in place
C6_Witness ==
  /\ last.op = "parseEffect" /\ last.parse = "failed"
  /\ fields # <<>> /\ error # NULL /\ ~loading

---------------------------------------------------------------------------
(* C7 *)

\* C7: when a fetch fails, the next state has a non-null error (an Error
\* object: the one thrown, or the hook's own when the thrown value is not an
\* Error), loading = false, and fields and the cached document exactly as
\* before.
C7_FetchFailure ==
  [][FetchFailStep =>
       (/\ error' # NULL
        /\ error' \in {FetchError(l) : l \in Languages} \cup {BodyReadError, FetchFallbackError}
        /\ loading' = FALSE
        /\ fields' = fields
        /\ fetchedYaml' = fetchedYaml)]_vars

\* a second fetch was rejected with a value that is not an Error after the first
\* had been cached and parsed: the cached document and the published fields are
\* still there
C7_Witness ==
  /\ last.op = "fetchFail"
  /\ error = FetchFallbackError /\ ~loading /\ Cached /\ fields # <<>>

---------------------------------------------------------------------------
(* The schema document format, as the properties of the parser read it *)

Called == result # NotCalled
\* the entries in document order
DocEntries == doc.entries
\* a key that is an array index
IsIndexName(name) == IsArrayIndex(name)
\* entry i of the document is visited before entry j: keys that are array
\* indices go first, by their number; the other keys keep the document order
VisitedBefore(i, j) ==
  LET a == DocEntries[i].name
      b == DocEntries[j].name
  IN IF IsIndexName(a) /\ IsIndexName(b) THEN IndexBefore(a, b)
     ELSE IF IsIndexName(a) # IsIndexName(b) THEN IsIndexName(a)
     ELSE i < j
\* the keys f1, f2, ... of the generated documents; none is an array index
PlainNames == {FieldNames[i] : i \in 1..Len(FieldNames)}
\* the entries in the order the parser visits them: the document order when no
\* key is an array index
Entries ==
  IF \A i \in 1..Len(DocEntries) :
       DocEntries[i].name \in PlainNames \/ ~IsIndexName(DocEntries[i].name)
    THEN DocEntries
    ELSE [n \in 1..Len(DocEntries) |->
            DocEntries[CHOOSE j \in 1..Len(DocEntries) :
                         Cardinality({i \in 1..Len(DocEntries) : VisitedBefore(i, j)}) = n - 1]]
Indices == 1..Len(Entries)
Raw(i) == Entries[i].raw

TypeValid(raw) ==
  raw.type \in {FieldTypeString, FieldTypeEnum, FieldTypeMultipleSelect}
\* the label is a non-empty string, or a mapping with a non-empty entry for lang
LabelValid(raw, lang) ==
  \/ raw.label.kind = "string" /\ raw.label.s # ""
  \/ raw.label.kind = "map" /\ lang \in DOMAIN raw.label.m /\ raw.label.m[lang] # ""
\* the label is missing for lang: it is absent or the empty string, or it is a
\* mapping that is empty, lacks lang or has an empty entry for it, or it is a
\* sequence, which has no entry for any language
LabelFault(raw, lang) ==
  \/ raw.label.kind = "undefined"
  \/ raw.label.kind = "string" /\ raw.label.s = ""
  \/ raw.label.kind = "map" /\ lang \notin DOMAIN raw.label.m
  \/ raw.label.kind = "map" /\ lang \in DOMAIN raw.label.m /\ raw.label.m[lang] = ""
  \/ raw.label.kind = "seq"
\* ENUM and MULTIPLE_SELECT need a non-empty sequence of values for lang
ValuesValid(raw, lang) ==
  raw.type \in {FieldTypeEnum, FieldTypeMultipleSelect} =>
    \/ raw.values.kind = "seq" /\ raw.values.items # <<>>
    \/ raw.values.kind = "map" /\ lang \in DOMAIN raw.values.m
       /\ raw.values.m[lang] # <<>>
ValidationValid(raw, lang) ==
  (raw.validation.kind = "object" /\ raw.validation.errorMessage.kind = "map") =>
    lang \in DOMAIN raw.validation.errorMessage.m
EntryValid(raw, lang) ==
  /\ TypeValid(raw) /\ LabelValid(raw, lang) /\ ValuesValid(raw, lang)
  /\ ValidationValid(raw, lang) /\ raw.dataKey # NoKey
DataKeysDistinct ==
  \A i, j \in Indices : i # j => Raw(i).dataKey # Raw(j).dataKey
ValidDoc ==
  /\ doc.kind = "mapping"
  /\ \A i \in Indices : EntryValid(Raw(i), plang)
  /\ DataKeysDistinct

---------------------------------------------------------------------------
(* C8 *)

\* C8: for a valid document and a language present in all its label, values and
\* validation mappings, parseYamlConfig succeeds and returns one definition per
\* entry, with pairwise distinct dataKeys.
C8_ValidDocumentParses ==
  (Called /\ ValidDoc) =>
    /\ result.ok
    /\ Len(result.value) = Len(Entries)
    /\ \A i, j \in 1..Len(result.value) :
         i # j => result.value[i].dataKey # result.value[j].dataKey

\* a valid document of three entries, with a plain label and language-keyed
\* labels and values, parsed for "es-ES"
C8_Witness ==
  /\ Called /\ ValidDoc /\ plang = "es-ES"
  /\ result.ok /\ Len(result.value) = 3
  /\ \E i \in Indices : Raw(i).label.kind = "string"
  /\ \E i \in Indices : Raw(i).label.kind = "map"

---------------------------------------------------------------------------
(* C9 *)

\* the labels C9 names: absent, or a mapping that is empty or lacks lang
LabelAbsentOrUnmapped(raw, lang) ==
  \/ raw.label.kind = "undefined"
  \/ raw.label.kind = "map" /\ lang \notin DOMAIN raw.label.m

\* C9 (as stated): if any entry has a label that is absent, or a label mapping
\* that is empty or lacks the language, the parse fails with the missing-label
\* configuration error naming such an entry and the language, and returns no
\* result.  Stated for the documents whose entries all carry a dataKey and the
\* values their type needs, so that no constructor has a reason to throw.
C9_MissingLabelNamesTheField ==
  (Called /\ \A k \in Indices : ValuesValid(Raw(k), plang) /\ Raw(k).dataKey # NoKey) =>
    \A i \in Indices :
      LabelAbsentOrUnmapped(Raw(i), plang) =>
        /\ ~result.ok /\ result.value = <<>>
        /\ \E k \in Indices :
             /\ LabelFault(Raw(k), plang)
             /\ result.err = MissingLabelError(Entries[k].name, plang)

\* C9 (amended): if any entry has a label that is absent, or a label mapping that
\* is empty or lacks the language, the parse fails and returns no result; the
\* error is the configuration error naming that entry and the language whenever
\* every entry visited before it is individually valid (keys that are array
\* indices are visited first, in ascending order, then the other keys in
\* document order).  Checked for every label that is missing for the language,
\* which besides the labels the claim names are the empty string, a mapping
\* with an empty entry for the language, and a sequence.
C9_MissingLabelFails ==
  Called =>
    \A i \in Indices :
      LabelFault(Raw(i), plang) =>
        /\ ~result.ok /\ result.value = <<>> /\ result.err # NULL
        /\ (\A j \in 1..(i - 1) : EntryValid(Raw(j), plang)) =>
             result.err = MissingLabelError(Entries[i].name, plang)

\* the third entry's label mapping lacks "es-ES"; the two before it are valid and
\* the error names the third entry and "es-ES"
C9_Witness ==
  /\ Called /\ plang = "es-ES" /\ Len(Entries) = 3
  /\ Raw(3).label.kind = "map" /\ DOMAIN Raw(3).label.m = {"en-GB"}
  /\ EntryValid(Raw(1), plang) /\ EntryValid(Raw(2), plang)
  /\ result.err = MissingLabelError("f3", "es-ES")

---------------------------------------------------------------------------
(* C10 *)

HasDuplicate == \E i, j \in Indices : i < j /\ Raw(i).dataKey = Raw(j).dataKey
RepeatsIn(es, j) == \E i \in 1..(j - 1) : es[i].raw.dataKey = es[j].raw.dataKey
\* the first entry of es whose dataKey an earlier entry of es already has
FirstRepeatIn(es) ==
  CHOOSE j \in 1..Len(es) : RepeatsIn(es, j) /\ \A k \in 1..(j - 1) : ~RepeatsIn(es, k)

\* C10 (as stated): if two entries share a dataKey and every entry is
\* individually valid for the language, the parse fails, returns no result, and
\* the error is the duplicate-dataKey configuration error naming the dataKey of
\* the first entry in document order that repeats an earlier one.
C10_DuplicateInDocumentOrder ==
  (/\ Called /\ doc.kind = "mapping"
   /\ \A i \in Indices : EntryValid(Raw(i), plang)
   /\ HasDuplicate) =>
    /\ ~result.ok /\ result.value = <<>>
    /\ result.err = DuplicateDataKeyError(DocEntries[FirstRepeatIn(DocEntries)].raw.dataKey)

\* C10 (amended): if two entries share a dataKey and every entry is individually
\* valid for the language, the parse fails, returns no result, and the error is
\* the duplicate-dataKey configuration error naming the dataKey of the first
\* entry that repeats an earlier one in the order the entries are visited (keys
\* that are array indices first, in ascending order, then the other keys in
\* document order), wherever the two entries are.
C10_DuplicateInVisitOrder ==
  (/\ Called /\ doc.kind = "mapping"
   /\ \A i \in Indices : EntryValid(Raw(i), plang)
   /\ HasDuplicate) =>
    /\ ~result.ok /\ result.value = <<>>
    /\ result.err = DuplicateDataKeyError(Entries[FirstRepeatIn(Entries)].raw.dataKey)

\* the document f1, f2, "2", "1" is visited as "1", "2", f1, f2: the first
\* repeat met is the dataKey shared by "1" and f1, where in document order it
\* would be the one shared by f2 and "2"
C10_Witness ==
  /\ Called /\ Len(DocEntries) = 4
  /\ \A i \in Indices : EntryValid(Raw(i), plang)
  /\ DocEntries[3].name = "2" /\ DocEntries[4].name = "1"
  /\ DocEntries[1].raw.dataKey = DocEntries[4].raw.dataKey
  /\ DocEntries[2].raw.dataKey = DocEntries[3].raw.dataKey
  /\ DocEntries[1].raw.dataKey # DocEntries[2].raw.dataKey
  /\ result.err = DuplicateDataKeyError(DocEntries[1].raw.dataKey)

---------------------------------------------------------------------------
(* C11 *)

\* C11 (as stated): if an entry has a type outside STRING, ENUM and
\* MULTIPLE_SELECT, the parse fails with the invalid-type error naming such an
\* entry and its type.  Stated for the documents whose entries all carry a
\* dataKey and the values their type needs, so that no constructor has a reason
\* to throw.
C11_InvalidTypeNamesTheField ==
  (Called /\ \A k \in Indices : ValuesValid(Raw(k), plang) /\ Raw(k).dataKey # NoKey) =>
    \A i \in Indices :
      ~TypeValid(Raw(i)) =>
        /\ ~result.ok
        /\ \E k \in Indices :
             /\ ~TypeValid(Raw(k))
             /\ result.err = InvalidTypeError(Entries[k].name, Raw(k).type)

\* C11 (amended): if an entry has a type outside STRING, ENUM and
\* MULTIPLE_SELECT, the parse fails and returns no result; the error is the
\* invalid-type error naming that entry and its type whenever the entry's own
\* label resolves for the language and every entry visited before it is
\* individually valid (keys that are array indices are visited first, in
\* ascending order, then the other keys in document order).
C11_InvalidTypeFails ==
  Called =>
    \A i \in Indices :
      ~TypeValid(Raw(i)) =>
        /\ ~result.ok /\ result.value = <<>> /\ result.err # NULL
        /\ (/\ LabelValid(Raw(i), plang)
            /\ \A j \in 1..(i - 1) : EntryValid(Raw(j), plang)) =>
             result.err = InvalidTypeError(Entries[i].name, Raw(i).type)

\* the third entry has type NUMBER and a label; the two before it are valid and
\* the error names the third entry and NUMBER
C11_Witness ==
  /\ Called /\ Len(Entries) = 3
  /\ Raw(3).type = "NUMBER" /\ LabelValid(Raw(3), plang)
  /\ EntryValid(Raw(1), plang) /\ EntryValid(Raw(2), plang)
  /\ result.err = InvalidTypeError("f3", "NUMBER")

---------------------------------------------------------------------------
(* C13 *)

FetchSettleStep == Len(inflight') < Len(inflight)
\* no fetch in flight, no effect pending and no render due
Quiescent == pending = <<>> /\ inflight = <<>> /\ ~render.needed

\* a settling fetch is applied, whichever the current language: on success the
\* body becomes the cached document, tagged with the language the fetch was
\* issued for, the error is cleared and a render is due that has a new
\* document to see; on failure the error is set and loading becomes false
SettleApplied ==
  \E i \in 1..Len(inflight) :
    /\ inflight' = RemoveAt(inflight, i)
    /\ language' = language
    /\ render'.needed
    /\ \/ /\ last'.op = "fetchSucceed"
          /\ Cached' /\ fetchedYaml'.lang = inflight[i]
          /\ fetchedYaml'.yaml \in ServerDocs
          /\ error' = NULL
          /\ render'.newYaml
       \/ /\ last'.op = "fetchFail"
          /\ error' # NULL /\ loading' = FALSE
          /\ fetchedYaml' = fetchedYaml
\* the documents a successful fetch can store
StoredDocs == {[yaml |-> y, lang |-> l] : y \in ServerDocs, l \in Languages}
\* a fetch has just succeeded and stored d
StoredNow(d) == last.op = "fetchSucceed" /\ fetchedYaml = d
\* the parse effect has just parsed d
ParsedDoc(d) == last.op = "parseEffect" /\ last.parse # "none" /\ render.yaml = d

\* C13 (as stated): whichever the current language, a fetch that settles is
\* applied: on success its body becomes the cached document, tagged with the
\* language the fetch was issued for, and that document is parsed; on failure
\* the error is set and loading becomes false.
C13_EveryResultParsed ==
  /\ [][FetchSettleStep => SettleApplied]_vars
  /\ \A d \in StoredDocs : StoredNow(d) ~> ParsedDoc(d)

\* C13 (amended): whichever the current language, a fetch that settles is
\* applied: on success its body becomes the cached document, tagged with the
\* language the fetch was issued for, and on failure the error is set and
\* loading becomes false.  The render that follows a success sees the document
\* that is cached then and schedules the parse effect, which parses the
\* document of its render for the language that is current when it runs; so
\* once a document has been stored, the hook comes to a state where the cached
\* document is the one just parsed.  A document that another success replaces
\* before the render is not parsed itself.
C13_LateResultApplied ==
  /\ [][FetchSettleStep => SettleApplied]_vars
  /\ [][(RenderStep /\ render.newYaml) =>
          (/\ render'.yaml = fetchedYaml /\ Seen'
           /\ pending' # <<>> /\ pending'[Len(pending')] = "parse")]_vars
  /\ [][(Seen /\ ParseEffectStep) =>
          (/\ loading' = FALSE
           /\ IF ParsedSeen.ok THEN fields' = ParsedSeen.value /\ error' = NULL
                               ELSE fields' = fields /\ error' = ParsedSeen.err)]_vars
  /\ render.newYaml ~> (Cached /\ ParsedDoc(fetchedYaml))

\* the fetch issued for "en-GB" resolved after the language had changed to "es-ES",
\* where a second fetch is still outstanding: the document is cached with tag
\* "en-GB" and was parsed for "es-ES"
C13_Witness ==
  /\ last.op = "parseEffect" /\ last.parse = "ok"
  /\ Cached /\ fetchedYaml.lang = "en-GB" /\ language = "es-ES"
  /\ nFetch = 2 /\ inflight = <<"es-ES">>
  /\ fields = parseYamlConfig(fetchedYaml.yaml, "es-ES").value

---------------------------------------------------------------------------
(* C14 *)

\* a fetch has failed, nothing is cached and no language change is being
\* handled: no effect is scheduled and the last render saw the current language
FailedUncached ==
  ~Cached /\ error # NULL /\ ~loading /\ pending = <<>> /\ render.lang = language

\* C14 (as stated): after a failed fetch, with no document cached and nothing
\* outstanding, the render that follows a language change schedules the fetch
\* effect, which starts the new fetch.
C14_EveryChangeRefetches ==
  [][(~Cached /\ error # NULL /\ inflight = <<>> /\ last.op = "change" /\ RenderStep) =>
       pending' = <<"fetch", "parse">>]_vars

\* C14 (amended): after a failed fetch, while no document is cached, any step other than
\* a language change leaves the error set and loading false and starts no fetch,
\* and with no other fetch outstanding a language change and a render that
\* schedules nothing are the only steps there are; a fetch is only ever started
\* by the fetch effect; a render that finds the language changed schedules that
\* effect; and when the render saw no document the effect starts a fetch for the
\* active language and sets loading to true.
C14_RefetchOnlyOnLanguageChange ==
  /\ [][(FailedUncached /\ ~LanguageChangeStep /\ ~Cached') =>
          (error' # NULL /\ ~loading' /\ ~FetchStarted)]_vars
  /\ [][(FailedUncached /\ inflight = <<>>) =>
          (LanguageChangeStep \/ (RenderStep /\ pending' = <<>>))]_vars
  /\ [][FetchStarted => FetchEffectStep]_vars
  /\ [][LanguageChangeStep => render'.needed]_vars
  /\ [][(RenderStep /\ render.lang # language) => pending' = <<"fetch", "parse">>]_vars
  /\ [][(~Seen /\ FetchEffectStep) =>
          (/\ nFetch' = nFetch + 1
           /\ inflight' = Append(inflight, EffLang(language))
           /\ loading' = TRUE)]_vars

\* the first fetch failed, the language changed, and the fetch effect started a
\* second fetch for the new language
C14_Witness ==
  /\ last.op = "fetchEffect" /\ last.started
  /\ ~Cached /\ error # NULL /\ loading
  /\ nFetch = 2 /\ nChange = 1 /\ inflight = <<EffLang(language)>>

---------------------------------------------------------------------------
(* C15 *)

\* the entry makes the map callback throw
Faulty(raw, lang) ==
  \/ ~LabelValid(raw, lang) \/ ~TypeValid(raw)
  \/ ~ValuesValid(raw, lang) \/ raw.dataKey = NoKey
FirstFaultyIn(es) ==
  CHOOSE i \in 1..Len(es) : /\ Faulty(es[i].raw, plang)
                            /\ \A k \in 1..(i - 1) : ~Faulty(es[k].raw, plang)
\* what the callback throws for a faulty entry: the label is checked first, the
\* type next, the constructor last
PerFieldError(e) ==
  IF ~LabelValid(e.raw, plang) THEN MissingLabelError(e.name, plang)
  ELSE IF ~TypeValid(e.raw) THEN InvalidTypeError(e.name, e.raw.type)
  ELSE IF e.raw.dataKey = NoKey THEN ConstructorError(e.name, "dataKey")
  ELSE ConstructorError(e.name, "values")

\* C15 (as stated): if the document has both a repeated dataKey and an entry
\* whose label is missing for the language or whose type is unknown, the parse
\* fails with the single per-field error of the first faulty entry in document
\* order, and never with the duplicate-dataKey error.
C15_FirstFaultyInDocumentOrder ==
  (/\ Called /\ HasDuplicate
   /\ \E i \in Indices : LabelFault(Raw(i), plang) \/ ~TypeValid(Raw(i))) =>
    /\ ~result.ok /\ result.value = <<>>
    /\ \A k \in DataKeys : result.err # DuplicateDataKeyError(k)
    /\ result.err = PerFieldError(DocEntries[FirstFaultyIn(DocEntries)])

\* C15 (amended): if the document has both a repeated dataKey and an entry whose
\* label is missing for the language or whose type is unknown, the parse fails
\* with the single per-field error of the first faulty entry in the order the
\* entries are visited (keys that are array indices first, in ascending order,
\* then the other keys in document order), and never with the duplicate-dataKey
\* error, wherever the repeated dataKey is.
C15_PerFieldErrorBeforeDuplicate ==
  (/\ Called /\ HasDuplicate
   /\ \E i \in Indices : LabelFault(Raw(i), plang) \/ ~TypeValid(Raw(i))) =>
    /\ ~result.ok /\ result.value = <<>>
    /\ \A k \in DataKeys : result.err # DuplicateDataKeyError(k)
    /\ result.err = PerFieldError(Entries[FirstFaultyIn(Entries)])

\* the first two entries are valid and share a dataKey, the third has an unknown
\* type: the error is the third entry's
C15_Witness ==
  /\ Called /\ Len(Entries) = 3
  /\ EntryValid(Raw(1), plang) /\ EntryValid(Raw(2), plang)
  /\ Raw(1).dataKey = Raw(2).dataKey
  /\ ~TypeValid(Raw(3)) /\ LabelValid(Raw(3), plang)
  /\ result.err = InvalidTypeError("f3", Raw(3).type)

---------------------------------------------------------------------------
(* C16 *)

\* C16: after a call of parseYamlConfig, whether it returned or threw, every raw
\* record of the parsed document has the label, values and validation
\* (validation.errorMessage included) it had before the call, language-keyed
\* mappings where it had them.
C16_RawRecordsUntouched ==
  Called =>
    /\ Len(jsonAfter) = Len(YamlParse(doc).entries)
    /\ \A i \in 1..Len(jsonAfter) :
         /\ jsonAfter[i].name = DocEntries[i].name
         /\ jsonAfter[i].raw.label = DocEntries[i].raw.label
         /\ jsonAfter[i].raw.values = DocEntries[i].raw.values
         /\ jsonAfter[i].raw.validation = DocEntries[i].raw.validation
         /\ jsonAfter[i].raw = DocEntries[i].raw

\* the callback localized the label and the validation message of the first
\* entry and the values of the second, then threw on the type of the third,
\* whose label it had localized: the three records still hold their mappings
C16_Witness ==
  /\ Called /\ Len(Entries) = 3 /\ plang = "es-ES"
  /\ Raw(1).label.kind = "map" /\ Raw(1).validation.kind = "object"
  /\ Raw(1).validation.errorMessage.kind = "map"
  /\ Localize(Raw(1), plang).field.label = Str("Nombre")
  /\ Localize(Raw(1), plang).field.validation = Obj(Str("No valido"))
  /\ Raw(2).values.kind = "map"
  /\ Localize(Raw(2), plang).field.values = Arr(<<"EEUU", "CA">>)
  /\ ~TypeValid(Raw(3)) /\ Raw(3).label.kind = "map"
  /\ result.err = InvalidTypeError("f3", Raw(3).type)
  /\ jsonAfter[1].raw.label.kind = "map"
  /\ jsonAfter[1].raw.validation.errorMessage.kind = "map"
  /\ jsonAfter[2].raw.values.kind = "map"
  /\ jsonAfter[3].raw.label.kind = "map"

---------------------------------------------------------------------------
(* C17 *)

\* the map callback gets to localize the values of entry i: every earlier entry
\* was built and the label check of entry i passed
ValuesLocalized(i) ==
  /\ \A j \in 1..(i - 1) : BuildField(Entries[j].name, Raw(j), plang).ok
  /\ ~LabelMissing(Raw(i), plang)

\* C17: when the values of a record are a language-keyed mapping, the field the
\* callback builds from gets the mapping's entry for the language, undefined
\* when the mapping lacks the language, and the callback throws no localization
\* error for it: a STRING record is built with values undefined.  When the
\* values are a plain sequence, the field gets that sequence, in the same order.
C17_ValuesResolution ==
  Called =>
    \A i \in Indices :
      ValuesLocalized(i) =>
        LET v == Raw(i).values
            built == BuildField(Entries[i].name, Raw(i), plang)
            out == Localize(Raw(i), plang).field.values
        IN /\ v.kind = "map" =>
                /\ out = IF plang \in DOMAIN v.m THEN Arr(v.m[plang]) ELSE Undefined
                /\ built.ok \/ built.err # MissingLabelError(Entries[i].name, plang)
                /\ Raw(i).type = FieldTypeString => built.ok
           /\ v.kind = "seq" =>
                /\ out = v
                /\ \A k \in 1..Len(v.items) : out.items[k] = v.items[k]
           /\ result.ok => result.value[i].values = out

\* parsed for "es-ES": a STRING record whose values mapping lacks "es-ES" is built
\* with values undefined, an ENUM record gets the "es-ES" entry of its mapping, and
\* a MULTIPLE_SELECT record keeps its sequence <<"b", "a">>
C17_Witness ==
  /\ Called /\ plang = "es-ES" /\ result.ok /\ Len(result.value) = 3
  /\ Raw(1).values.kind = "map" /\ DOMAIN Raw(1).values.m = {"en-GB"}
  /\ result.value[1].values = Undefined
  /\ Raw(2).values.kind = "map" /\ "es-ES" \in DOMAIN Raw(2).values.m
  /\ result.value[2].values = Arr(<<"EEUU", "CA">>)
  /\ Raw(3).values = Arr(<<"b", "a">>)
  /\ result.value[3].values = Arr(<<"b", "a">>)

---------------------------------------------------------------------------
(* C18 *)

\* C18: if every scheduled effect runs and every started fetch settles, a state
\* with loading = true is always followed by a state with loading = false, and
\* loading is false in every state with no fetch in flight and no effect pending.
C18_LoadingEnds ==
  /\ loading ~> ~loading
  /\ [](Quiescent => ~loading)

\* two fetches were started and have settled, the hook has rendered their
\* outcome, nothing is pending, and loading is false
C18_Witness ==
  /\ Quiescent /\ ~loading /\ nFetch = 2 /\ last.op = "render"

---------------------------------------------------------------------------
(* C19 *)

\* C19: in every state with no fetch in flight and no effect pending in which a
\* document is cached, error is non-null only if parsing the cached document for
\* the current language fails.
C19_ErrorOnlyFromParse ==
  (Quiescent /\ Cached /\ error # NULL) => ~ParsedNow.ok

\* the state the property excludes: the fetch started for the second language
\* failed after the first fetch's document had been cached and parsed, so the
\* error of that fetch is shown next to the fields of a document that parses
C19_Witness ==
  /\ Quiescent /\ Cached
  /\ error = FetchError(EffLang(language))
  /\ ParsedNow.ok /\ fields = ParsedNow.value /\ fields # <<>>

---------------------------------------------------------------------------
(* C20 *)

\* C20: in every state with no fetch in flight and no effect pending in which a
\* document is cached and error is null, fields is what parseYamlConfig returns
\* for the cached document and the current language.
C20_FieldsMatchCachedDocument ==
  (Quiescent /\ Cached /\ error = NULL) =>
    /\ ParsedNow.ok
    /\ fields = ParsedNow.value

\* the state the property excludes: the language changed between the render
\* that scheduled the parse effect and the effect, and changed back before the
\* next render, which then found its dependencies as they were: the fields
\* shown are those of the other language
C20_Witness ==
  /\ Quiescent /\ Cached /\ error = NULL
  /\ nChange = 2 /\ nFetch = 1
  /\ language = "en-GB" /\ ParsedNow.ok
  /\ fields # ParsedNow.value
  /\ fields = parseYamlConfig(fetchedYaml.yaml, "es-ES").value

=============================================================================
